--------------------------- MODULE CliClient_proofs ---------------------------
(***************************************************************************)
(* Theorems of CliClient, for any number of overlapping invocations, any   *)
(* command lines and any behaviour of the server: a request is carried out *)
(* at most once, the cache neither costs an answer nor holds what did not  *)
(* work, and get prints no file.                                           *)
(*                                                                         *)
(* All but the last follow from one invariant: what has to be true of an   *)
(* invocation at each point, in terms of what the server accepts and the   *)
(* record is.  The last is about any command line: which words are left    *)
(* when options have taken theirs.                                         *)
(***************************************************************************)
EXTENDS CliClient, FiniteSetTheorems, SequenceTheorems, TLAPS

Requests ==
  {Dispatch(line, url, stdin) :
     line \in UNION {Lines[c] : c \in Clients}, url \in BOOLEAN, stdin \in BOOLEAN}
    \union {Refuse}

Received == {"answer", "write", "answered"}
AllAnswers == {"none", "text", "file", "done", "failed", "unauthorised"}

Invocation ==
  [pc : {"idle", "load", "send", "answer", "write", "answered"},
   names : BOOLEAN, req : Requests, key : BOOLEAN,
   part : {"only", "metadata", "contents"},
   scheme : Schemes \union {Nothing}, cached : BOOLEAN,
   answer : AllAnswers, seen : AllAnswers,
   applied : Nat, steady : BOOLEAN, changed : BOOLEAN]

\* How often the request has been carried out, and what was tried in vain.
AttemptsRight(r) ==
  /\ r.pc \notin Received \/ r.answer = "unauthorised" => r.applied = 0
  /\ r.pc \in Received /\ r.answer # "unauthorised" => r.applied = 1
  /\ r.pc = "write" => r.key /\ r.answer # "unauthorised"
  /\ r.pc \in {"send", "answer", "write", "answered"} /\ r.key => r.scheme # Nothing

RefusalsRight(r) ==
  r.key /\ r.steady =>
    /\ r.pc \in {"send", "answer"} /\ ~r.cached /\ r.scheme = "x-api-key"
         => accepts \intersect {"bearer", Nothing} = {}
    /\ r.pc = "answer" /\ r.answer = "unauthorised" => ~Let(r.scheme)
    /\ r.pc = "answered" /\ r.answer = "unauthorised"
         => accepts \intersect (Schemes \union {Nothing}) = {}

\* A get that asks twice, while the record stays what it is.
PartsRight(r) ==
  /\ r.part # "only" => r.req.op = "show"
  /\ ~r.changed /\ r.part # "only" /\ r.pc \in Received /\ r.answer \in Kinds
       => r.answer = record
  /\ r.part # "only" /\ r.pc \in Received => r.answer \in Kinds \union {"failed", "unauthorised"}
  /\ ~r.changed /\ r.part = "contents" /\ r.seen \notin {"failed", "unauthorised"}
       => record # "file"

Right(r) == AttemptsRight(r) /\ RefusalsRight(r) /\ PartsRight(r)

ClientInv ==
  /\ client \in [Clients -> Invocation]
  /\ \A c \in Clients : Right(client[c])
  /\ cache \in Schemes \union {Nothing, Torn, Mixed}
  /\ record \in Kinds

-----------------------------------------------------------------------------
LEMMA IdleRight == Idle \in Invocation /\ Right(Idle)
BY DEF Idle, Invocation, Requests, Right, AttemptsRight, RefusalsRight, PartsRight,
       Received, AllAnswers, Refuse, Ask

\* A step of one invocation has only its own state to keep right.
LEMMA OneMoves ==
  ASSUME ClientInv, NEW c \in Clients, NEW r \in Invocation, Right(r),
         client' = [client EXCEPT ![c] = r], UNCHANGED <<accepts, record>>,
         cache' \in Schemes \union {Nothing, Torn, Mixed}
  PROVE  ClientInv'
<1>1. client' \in [Clients -> Invocation]
  BY DEF ClientInv
<1>2. ASSUME NEW d \in Clients PROVE Right(client[d])'
  <2>1. client'[d] = IF d = c THEN r ELSE client[d]
    BY DEF ClientInv
  <2>2. \A q : Right(q) => (accepts' = accepts /\ record' = record)
    OBVIOUS
  <2> QED
    BY <2>1 DEF ClientInv, Right, AttemptsRight, RefusalsRight, PartsRight, Let
<1> QED
  BY <1>1, <1>2 DEF ClientInv

\* An invocation that only the operator or the server touches.
LEMMA Stays ==
  ASSUME ClientInv, UNCHANGED cvars
  PROVE  ClientInv'
BY DEF ClientInv, cvars, Right, AttemptsRight, RefusalsRight, PartsRight, Let

LEMMA LoadRight ==
  ASSUME ClientInv, NEW c \in Clients, Load(c)
  PROVE  ClientInv'
<1> DEFINE scheme == IF ~client[c].key THEN Nothing
                     ELSE IF Cached = Nothing THEN "bearer" ELSE Cached
           r == [client[c] EXCEPT !.pc = "send", !.scheme = scheme, !.steady = TRUE,
                                  !.cached = client[c].key /\ Cached # Nothing]
<1>1. client[c] \in Invocation /\ Right(client[c]) /\ client[c].pc = "load"
  BY DEF ClientInv, Load, At
<1>2. Cached \in Schemes \union {Nothing} /\ Nothing \notin Schemes
  BY ValueAssumption DEF Cached, Schemes
<1>3. r \in Invocation
  BY <1>1, <1>2 DEF Invocation, Schemes
<1>4. Right(r)
  BY <1>1, <1>2, <1>3 DEF Right, AttemptsRight, RefusalsRight, PartsRight, Invocation,
                          Received, Schemes
<1>5. client' = [client EXCEPT ![c] = r]
  BY DEF Load
<1> QED
  BY <1>3, <1>4, <1>5, OneMoves DEF Load, ClientInv

LEMMA SendRight ==
  ASSUME ClientInv, NEW c \in Clients, Send(c)
  PROVE  ClientInv'
<1> DEFINE r(answer, n) == [client[c] EXCEPT !.pc = "answer", !.answer = answer, !.applied = n]
<1>1. client[c] \in Invocation /\ Right(client[c]) /\ client[c].pc = "send"
  BY DEF ClientInv, Send, At
<1>2. client[c].applied = 0
  BY <1>1 DEF Right, AttemptsRight, Received
<1>3. CASE Let(client[c].scheme)
  <2>1. PICK answer \in Answers(c) : client' = [client EXCEPT ![c] = r(answer, 1)]
    <3>1. PICK answer \in Answers(c) :
            client' = [client EXCEPT ![c] = r(answer, client[c].applied + 1)]
      BY <1>3 DEF Send
    <3>2. client[c].applied + 1 = 1
      BY <1>2
    <3> QED
      BY <3>1, <3>2
  <2>2. /\ answer \in AllAnswers \ {"unauthorised"}
        /\ answer \in Kinds => answer = record
        /\ client[c].part # "only" => answer \in Kinds \union {"failed"}
    BY <1>1 DEF Answers, ClientInv, Kinds, AllAnswers, Right, PartsRight
  <2>3. r(answer, 1) \in Invocation
    BY <1>1, <2>2 DEF Invocation
  <2>4. Right(r(answer, 1))
    BY <1>1, <2>2, <2>3 DEF Right, AttemptsRight, RefusalsRight, PartsRight, Invocation, Received
  <2> QED
    BY <2>1, <2>3, <2>4, OneMoves DEF Send, ClientInv
<1>4. CASE ~Let(client[c].scheme)
  <2>1. client' = [client EXCEPT ![c] = r("unauthorised", 0)]
    BY <1>1, <1>2, <1>4 DEF Send, Invocation
  <2>2. r("unauthorised", 0) \in Invocation
    BY <1>1 DEF Invocation, AllAnswers
  <2>3. Right(r("unauthorised", 0))
    BY <1>1, <1>4, <2>2
       DEF Right, AttemptsRight, RefusalsRight, PartsRight, Invocation, Received, Kinds
  <2> QED
    BY <2>1, <2>2, <2>3, OneMoves DEF Send, ClientInv
<1> QED
  BY <1>3, <1>4

LEMMA RetryRight ==
  ASSUME ClientInv, NEW c \in Clients, Retry(c)
  PROVE  ClientInv'
<1> DEFINE r == [client[c] EXCEPT !.pc = "send", !.cached = FALSE, !.scheme = NextScheme(c)]
<1>1. /\ client[c] \in Invocation /\ Right(client[c])
      /\ client[c].pc = "answer" /\ client[c].key /\ client[c].answer = "unauthorised"
  BY DEF ClientInv, Retry, At, Refused
<1>2. /\ NextScheme(c) \in Schemes /\ Nothing \notin Schemes
      /\ NextScheme(c) = "x-api-key" => ~client[c].cached /\ client[c].scheme = "bearer"
  BY ValueAssumption DEF Retry, NextScheme, Schemes
<1>3. r \in Invocation
  BY <1>1, <1>2 DEF Invocation
<1>4. Right(r)
  BY <1>1, <1>2, <1>3 DEF Right, AttemptsRight, RefusalsRight, PartsRight, Invocation,
                          Received, Let
<1>5. client' = [client EXCEPT ![c] = r]
  BY DEF Retry
<1> QED
  BY <1>3, <1>4, <1>5, OneMoves DEF Retry, ClientInv

\* The three ways an answer is dealt with.
LEMMA AnswerRight ==
  ASSUME ClientInv, NEW c \in Clients, Truncate(c) \/ Write(c) \/ Settle(c)
  PROVE  ClientInv'
<1> DEFINE r(pc) == [client[c] EXCEPT !.pc = pc]
<1>1. client[c] \in Invocation /\ Right(client[c])
  BY DEF ClientInv
<1>2. r("write") \in Invocation /\ r("answered") \in Invocation
  BY <1>1 DEF Invocation
<1>3. CASE Truncate(c)
  <2>1. client[c].pc = "answer" /\ client[c].key /\ client[c].answer # "unauthorised"
    BY <1>3 DEF Truncate, At, Learns, Refused
  <2>2. Right(r("write"))
    BY <1>1, <1>2, <2>1 DEF Right, AttemptsRight, RefusalsRight, PartsRight, Invocation, Received
  <2> QED
    BY <1>2, <1>3, <2>2, OneMoves DEF Truncate
<1>4. CASE Write(c)
  <2>1. client[c].pc = "write" /\ client[c].scheme \in Schemes
    BY <1>1, <1>4 DEF Write, At, Right, AttemptsRight, Invocation
  <2>2. Right(r("answered"))
    BY <1>1, <1>2, <2>1 DEF Right, AttemptsRight, RefusalsRight, PartsRight, Invocation, Received
  <2> QED
    BY <1>2, <1>4, <2>1, <2>2, OneMoves DEF Write
<1>5. CASE Settle(c)
  <2>1. client[c].pc = "answer"
    BY <1>5 DEF Settle, At
  <2>2. ASSUME client[c].key, client[c].steady, client[c].answer = "unauthorised"
        PROVE  accepts \intersect (Schemes \union {Nothing}) = {}
    <3>1. ~client[c].cached /\ client[c].scheme # "bearer"
      BY <1>5, <2>2, ValueAssumption DEF Settle, NextScheme, Refused
    <3>2. client[c].scheme = "x-api-key"
      BY <1>1, <2>1, <2>2, <3>1 DEF Right, AttemptsRight, Invocation, Schemes
    <3>3. accepts \intersect {"bearer", Nothing} = {} /\ ~Let("x-api-key")
      BY <1>1, <2>1, <2>2, <3>1, <3>2 DEF Right, RefusalsRight
    <3> QED
      BY <3>3 DEF Let, Schemes
  <2>3. Right(r("answered"))
    BY <1>1, <1>2, <2>1, <2>2
       DEF Right, AttemptsRight, RefusalsRight, PartsRight, Invocation, Received
  <2> QED
    BY <1>2, <1>5, <2>3, OneMoves DEF Settle, ClientInv
<1> QED
  BY <1>3, <1>4, <1>5

LEMMA FetchRight ==
  ASSUME ClientInv, NEW c \in Clients, Fetch(c)
  PROVE  ClientInv'
<1> DEFINE r == [Idle EXCEPT !.pc = "load", !.req = client[c].req, !.key = client[c].key,
                             !.part = "contents", !.seen = client[c].answer,
                             !.changed = client[c].changed]
<1>1. /\ client[c] \in Invocation /\ Right(client[c])
      /\ client[c].pc = "answered" /\ client[c].part = "metadata" /\ client[c].answer # "file"
  BY DEF ClientInv, Fetch, At, IsFile
<1>2. r \in Invocation
  BY <1>1, IdleRight DEF Invocation
<1>3. Right(r)
  BY <1>1, <1>2 DEF Right, AttemptsRight, RefusalsRight, PartsRight, Invocation,
                    Received, Kinds, Idle, ClientInv
<1>4. client' = [client EXCEPT ![c] = r]
  BY DEF Fetch
<1> QED
  BY <1>2, <1>3, <1>4, OneMoves DEF Fetch, ClientInv

LEMMA InvokeRight ==
  ASSUME ClientInv, NEW c \in Clients, NEW line \in Lines[c], NEW url \in BOOLEAN,
         NEW key \in BOOLEAN, NEW stdin \in BOOLEAN, Invoke(c, line, url, key, stdin)
  PROVE  ClientInv'
<1> DEFINE req == Dispatch(line, url, stdin)
           names == Names(line)
           keyed == key \/ Value(line, GlobalOptions, {"--api-key"}) # Nothing
           part == IF req.op = "show" THEN "metadata" ELSE "only"
           r == [Idle EXCEPT !.pc = "load", !.req = req, !.names = names, !.key = keyed,
                             !.part = part]
<1>1. req \in Requests
  BY DEF Requests
<1>2. names \in BOOLEAN /\ keyed \in BOOLEAN
  BY DEF Names
<1> HIDE DEF req, names, keyed
<1>3. r \in Invocation
  BY <1>1, <1>2, IdleRight DEF Invocation
<1>4. Right(r)
  BY <1>1, <1>2, <1>3 DEF Right, AttemptsRight, RefusalsRight, PartsRight, Invocation,
                          Received, Idle
<1>5. client' = [client EXCEPT ![c] = r] /\ UNCHANGED <<cache, accepts, record>>
  BY DEF Invoke, req, names, keyed
<1> QED
  BY <1>3, <1>4, <1>5, OneMoves DEF ClientInv

LEMMA EndRight ==
  ASSUME ClientInv, NEW c \in Clients, Lose(c) \/ Quit(c)
  PROVE  ClientInv'
BY IdleRight, OneMoves DEF Lose, Quit, ClientInv

\* What the world does to every invocation at once.
LEMMA ReconfigureRight ==
  ASSUME ClientInv, Reconfigure
  PROVE  ClientInv'
<1>1. /\ client' = [c \in Clients |->
           IF At(c, "idle") THEN Idle ELSE [client[c] EXCEPT !.steady = FALSE]]
      /\ UNCHANGED <<cache, record>>
  BY DEF Reconfigure
<1>2. ASSUME NEW c \in Clients
      PROVE  client'[c] \in Invocation /\ Right(client[c])'
  <2>1. CASE At(c, "idle")
    <3>1. client'[c] = Idle
      BY <1>1, <2>1
    <3> QED
      BY <3>1, <1>1, IdleRight
         DEF Right, AttemptsRight, RefusalsRight, PartsRight, Idle, Received, Refuse, Ask
  <2>2. CASE ~At(c, "idle")
    <3>1. client'[c] = [client[c] EXCEPT !.steady = FALSE]
      BY <1>1, <2>2
    <3>2. client[c] \in Invocation /\ Right(client[c])
      BY DEF ClientInv
    <3>3. client'[c] \in Invocation
      BY <3>1, <3>2 DEF Invocation
    <3> QED
      BY <1>1, <3>1, <3>2, <3>3
         DEF Right, AttemptsRight, RefusalsRight, PartsRight, Invocation
  <2> QED
    BY <2>1, <2>2
<1> QED
  BY <1>1, <1>2 DEF ClientInv

LEMMA OverwriteRight ==
  ASSUME ClientInv, Overwrite
  PROVE  ClientInv'
<1>1. /\ client' = [c \in Clients |->
           IF client[c].req.op = "show" THEN [client[c] EXCEPT !.changed = TRUE] ELSE client[c]]
      /\ record' \in Kinds /\ UNCHANGED <<cache, accepts>>
  BY DEF Overwrite
<1>2. ASSUME NEW c \in Clients
      PROVE  client'[c] \in Invocation /\ Right(client[c])'
  <2>1. client[c] \in Invocation /\ Right(client[c])
    BY DEF ClientInv
  <2>2. CASE client[c].req.op = "show"
    <3>1. client'[c] = [client[c] EXCEPT !.changed = TRUE]
      BY <1>1, <2>2
    <3>2. client'[c] \in Invocation
      BY <2>1, <3>1 DEF Invocation
    <3> QED
      BY <1>1, <2>1, <3>1, <3>2
         DEF Right, AttemptsRight, RefusalsRight, PartsRight, Invocation, Let
  <2>3. CASE client[c].req.op # "show"
    <3>1. client'[c] = client[c]
      BY <1>1, <2>3
    <3> QED
      BY <1>1, <2>1, <2>3, <3>1
         DEF Right, AttemptsRight, RefusalsRight, PartsRight, Let
  <2> QED
    BY <2>2, <2>3
<1> QED
  BY <1>1, <1>2 DEF ClientInv

LEMMA InvariantHolds == CSpec => []ClientInv
<1>1. CInit => ClientInv
  BY IdleRight DEF CInit, ClientInv
<1>2. ClientInv /\ [CNext]_cvars => ClientInv'
  <2> SUFFICES ASSUME ClientInv, [CNext]_cvars PROVE ClientInv'
    OBVIOUS
  <2>1. ASSUME NEW c \in Clients, Step(c) PROVE ClientInv'
    BY <2>1, LoadRight, RetryRight, AnswerRight, FetchRight, EndRight DEF Step
  <2>2. CASE CNext
    BY <2>1, <2>2, InvokeRight, SendRight, EndRight, ReconfigureRight, OverwriteRight
       DEF CNext, Transfer
  <2> QED
    BY <2>2, Stays
<1> QED
  BY <1>1, <1>2, PTL DEF CSpec

-----------------------------------------------------------------------------
\* Invocations and the cache keep their shape, and a request that is sent
\* under a key has a scheme.
THEOREM ClientTypeCorrect == CSpec => []ClientTypeOK
<1>1. ClientInv => ClientTypeOK
  BY DEF ClientInv, ClientTypeOK, Invocation, AllAnswers, Right, AttemptsRight, At
<1> QED
  BY <1>1, InvariantHolds, PTL

\* However many attempts authentication takes, a request is carried out at
\* most once.
THEOREM AtMostOnce == CSpec => []AppliedOnce
<1>1. ClientInv => AppliedOnce
  BY DEF ClientInv, AppliedOnce, Right, AttemptsRight, Received, Invocation
<1> QED
  BY <1>1, InvariantHolds, PTL

\* Nothing that can be in the cache costs an invocation its answer.
THEOREM CacheCostsNoAnswer == CSpec => []CacheIsOnlyAHint
<1>1. ClientInv => CacheIsOnlyAHint
  BY DEF ClientInv, CacheIsOnlyAHint, Right, RefusalsRight, Prints, At, Refused
<1> QED
  BY <1>1, InvariantHolds, PTL

\* get prints no file, unless the slot got one after its metadata were read.
THEOREM NoBinaryPrinted == CSpec => []BinaryIsNotPrinted
<1>1. ClientInv => BinaryIsNotPrinted
  BY DEF ClientInv, BinaryIsNotPrinted, Right, PartsRight, Prints, At, Received, Kinds
<1> QED
  BY <1>1, InvariantHolds, PTL

\* Only a scheme that worked is written to the cache.
THEOREM CacheLearnsWhatWorked == CSpec => CacheWorked
<1>1. ASSUME ClientInv, [CNext]_cvars, cache' # cache, cache' \in Schemes
      PROVE  \E c \in Clients : client[c].scheme = cache' /\ client[c].applied > 0
  <2>1. PICK c \in Clients : Truncate(c) \/ Write(c)
    BY <1>1, Zenon DEF CNext, Step, Transfer, Invoke, Load, Send, Lose, Retry, Settle, Fetch, Quit,
                Reconfigure, Overwrite, cvars
  <2>2. Write(c)
    BY <1>1, <2>1, ValueAssumption DEF Truncate, Schemes
  <2>3. client[c].pc = "write" /\ cache' = client[c].scheme
    BY <1>1, <2>2, ValueAssumption DEF Write, At, Schemes
  <2>4. AttemptsRight(client[c])
    BY <1>1 DEF ClientInv, Right
  <2>5. client[c].applied > 0
    BY <2>3, <2>4 DEF AttemptsRight, Received
  <2>6. client[c].scheme = cache'
    BY <2>3, Zenon
  <2> QED
    BY <2>5, <2>6, Zenon
<1> QED
  BY <1>1, InvariantHolds, PTL DEF CSpec, CacheWorked

-----------------------------------------------------------------------------
(* What a line asks for.                                                   *)

\* In a set of positions there is one for every rank.
LEMMA Nth ==
  ASSUME NEW k \in Nat, NEW kept \in SUBSET (1..k), NEW n \in 1..Cardinality(kept)
  PROVE  \E i \in kept : Cardinality({j \in kept : j <= i}) = n
<1> DEFINE upto(i) == {j \in kept : j <= i}
           rank == [i \in kept |-> Cardinality(upto(i))]
           ranks == {rank[i] : i \in kept}
<1>1. IsFiniteSet(kept) /\ Cardinality(kept) \in Nat
  <2>1. IsFiniteSet(1..k)
    BY FS_Interval
  <2> QED
    BY <2>1, FS_Subset, FS_CardinalityType
<1>2. \A i \in kept : /\ IsFiniteSet(upto(i)) /\ Cardinality(upto(i)) \in Nat
                      /\ Cardinality(upto(i)) <= Cardinality(kept)
  <2> SUFFICES ASSUME NEW i \in kept
               PROVE  /\ IsFiniteSet(upto(i)) /\ Cardinality(upto(i)) \in Nat
                      /\ Cardinality(upto(i)) <= Cardinality(kept)
    OBVIOUS
  <2>1. upto(i) \in SUBSET kept
    OBVIOUS
  <2> HIDE DEF upto
  <2> QED
    BY <1>1, <2>1, FS_Subset, FS_CardinalityType
<1>3. \A i \in kept : Cardinality(upto(i)) >= 1
  <2> SUFFICES ASSUME NEW i \in kept
               PROVE  Cardinality(upto(i)) >= 1
    OBVIOUS
  <2>1. upto(i) # {}
    OBVIOUS
  <2> HIDE DEF upto
  <2> QED
    BY <1>2, <2>1, FS_EmptySet
<1>4. ASSUME NEW i \in kept, NEW j \in kept, i < j
      PROVE  Cardinality(upto(i)) # Cardinality(upto(j))
  <2>1. i \in Nat /\ j \in Nat /\ kept \subseteq Nat
    OBVIOUS
  <2>2. upto(i) \subseteq upto(j)
    <3> SUFFICES ASSUME NEW x \in kept, x <= i
                 PROVE  x <= j
      OBVIOUS
    <3> QED
      BY <1>4, <2>1
  <2>3. j \in upto(j) /\ j \notin upto(i)
    BY <1>4, <2>1
  <2>4. upto(i) \in SUBSET upto(j) /\ upto(i) # upto(j)
    BY <2>2, <2>3
  <2> HIDE DEF upto
  <2> QED
    BY <1>2, <2>4, FS_Subset
<1>5. rank \in Bijection(kept, ranks)
  <2>1. \A i, j \in kept : rank[i] = rank[j] => i = j
    BY <1>4
  <2> HIDE DEF upto
  <2> QED
    BY <2>1 DEF Bijection, Injection, Surjection, IsInjective
<1>6. IsFiniteSet(ranks) /\ Cardinality(ranks) = Cardinality(kept)
  BY <1>1, <1>5, FS_Bijection DEF ExistsBijection
<1>7. ranks \in SUBSET (1..Cardinality(kept))
  <2>1. \A i \in kept : rank[i] \in 1..Cardinality(kept)
    <3> HIDE DEF upto
    <3> QED
      BY <1>1, <1>2, <1>3
  <2> HIDE DEF rank
  <2> QED
    BY <2>1
<1>8. IsFiniteSet(1..Cardinality(kept))
      /\ Cardinality(1..Cardinality(kept)) = Cardinality(kept)
  BY <1>1, FS_Interval
<1>9. ranks = 1..Cardinality(kept)
  BY <1>6, <1>7, <1>8, FS_Subset
<1> QED
  BY <1>9

\* No other command deletes.
LEMMA OtherCommands ==
  ASSUME NEW words, NEW stdin, NEW json, NEW id
  PROVE  /\ RunAdd(words, stdin).op # "delete" /\ RunMod(words, stdin).op # "delete"
         /\ RunFind(words).op # "delete" /\ RunSwap(words).op # "delete"
         /\ Get(id, json).op # "delete" /\ Refuse.op # "delete"
         /\ Ask("health", Nothing).op # "delete" /\ Ask("resequence", Nothing).op # "delete"
<1>1. \A op, to : Ask(op, to).op = op
  BY DEF Ask
<1>2. \A op, to, text : Upload(op, to, text, stdin) \in {Ask(op, to), Refuse}
  BY DEF Upload
<1>3. RunAdd(words, stdin).op # "delete" /\ RunMod(words, stdin).op # "delete"
  BY <1>1, <1>2 DEF RunAdd, RunMod, Refuse
<1> QED
  BY <1>1, <1>3 DEF RunFind, RunSwap, Get, Refuse

\* Only del without a number asks for the latest record to be deleted, and
\* then no word of the line is the number of a record.
LEMMA UnnamedDeletion ==
  ASSUME NEW line \in Seq(STRING), NEW url, NEW stdin,
         Dispatch(line, url, stdin) = Ask("delete", Nothing)
  PROVE  ~Names(line)
<1> DEFINE takes == Takes(line, GlobalOptions)
           kept == {i \in DOMAIN line : /\ ~takes[i] /\ line[i] \notin {"--json"}
                                        /\ i > 1 => ~takes[i - 1]}
           nth(n) == CHOOSE i \in kept : Cardinality({j \in kept : j <= i}) = n
           args == Words(line, GlobalOptions, {"--json"})
           id == Value(line, GlobalOptions, {"--id"})
           at == {i \in DOMAIN line : takes[i] /\ line[i] \in {"--id"}}
<1>1. DOMAIN line = 1..Len(line) /\ Len(line) \in Nat
      /\ \A i \in 1..Len(line) : line[i] \in STRING
  OBVIOUS
<1>2. \A i \in 1..Len(line) : takes[i] => line[i] \in GlobalOptions /\ i < Len(line)
  BY DEF Takes
<1>3. args = [n \in 1..Cardinality(kept) |-> line[nth(n)]]
  BY DEF Words
<1>4. id = IF at = {} THEN Nothing
           ELSE line[1 + CHOOSE i \in at : \A j \in at : j <= i]
  BY DEF Value
<1>5. IsFiniteSet(kept) /\ Cardinality(kept) \in Nat
      /\ IsFiniteSet(at) /\ Cardinality(at) \in Nat
  <2>1. IsFiniteSet(1..Len(line))
    BY <1>1, FS_Interval
  <2> QED
    BY <1>1, <2>1, FS_Subset, FS_CardinalityType
<1>6. kept \in SUBSET (1..Len(line)) /\ at \in SUBSET (1..Len(line))
  BY <1>1
<1> HIDE DEF takes, args, id
<1>7. \A n \in 1..Cardinality(kept) : nth(n) \in kept
  <2> HIDE DEF kept
  <2> QED
    BY <1>1, <1>6, Nth
<1>8. args \in Seq(STRING) /\ Len(args) = Cardinality(kept)
  <2>1. \A n \in 1..Cardinality(kept) : line[nth(n)] \in STRING
    BY <1>1, <1>6, <1>7
  <2> DEFINE n == Cardinality(kept)
  <2> HIDE DEF nth, kept
  <2>2. args \in [1..n -> STRING] /\ n \in Nat
    BY <1>3, <1>5, <2>1
  <2> HIDE DEF n
  <2>3. args \in Seq(STRING) /\ Len(args) = n
    BY <2>2, SeqDef, LenProperties
  <2> QED
    BY <2>3 DEF n
<1>9. args # <<>> /\ id = Nothing /\ args[1] = "del" /\ RunDelete(Tail(args)) = Ask("delete", Nothing)
  <2> DEFINE json == Switched(line, GlobalOptions, "--json")
  <2>1. Ask("delete", Nothing).op = "delete"
    BY DEF Ask
  <2>2. /\ args # <<>> /\ id = Nothing
        /\ Command(args, json, stdin) = Ask("delete", Nothing)
    <3>1. Dispatch(line, url, stdin) =
            IF \/ args # <<>> /\ args[1] \in {"--help", "-h", "--version"}
               \/ ~url /\ Value(line, GlobalOptions, {"--url"}) \in {Nothing, ""}
               \/ args # <<>> /\ id # Nothing
            THEN Refuse
            ELSE IF args = <<>> THEN Get(Nothing, json) ELSE Command(args, json, stdin)
      BY DEF Dispatch, args, id
    <3> HIDE DEF json
    <3>2. Refuse # Ask("delete", Nothing) /\ Get(Nothing, json) # Ask("delete", Nothing)
      BY <2>1, OtherCommands
    <3> QED
      BY <3>1, <3>2
  <2> HIDE DEF json
  <2>3. args[1] = "del"
    <3> SUFFICES ASSUME args[1] # "del"
                 PROVE  FALSE
      OBVIOUS
    <3>1. \A r : r = Command(args, json, stdin) => r.op = "delete"
      BY <2>1, <2>2
    <3> QED
      BY <3>1, OtherCommands DEF Command
  <2> QED
    BY <2>2, <2>3 DEF Command
<1>10. Cardinality(kept) = 1
  <2> HIDE DEF kept
  <2>1. Cardinality(kept) # 0
    BY <1>8, <1>9, EmptySeq
  <2>2. ASSUME Cardinality(kept) > 1
        PROVE  FALSE
    <3>1. Tail(args) \in Seq(STRING) /\ Len(Tail(args)) = Len(args) - 1
      BY <1>8, <1>9, HeadTailProperties
    <3>2. Tail(args) # <<>>
      <4>1. Len(Tail(args)) # 0
        BY <1>5, <1>8, <2>2, <3>1
      <4> QED
        BY <4>1, EmptySeq
    <3>3. Head(Tail(args)) \in STRING
      BY <3>1, <3>2, HeadTailProperties
    <3>4. RunDelete(Tail(args)).id # Nothing
      BY <3>2, <3>3, LinesAssumption DEF RunDelete, Ask
    <3>5. Ask("delete", Nothing).id = Nothing
      BY DEF Ask
    <3> QED
      BY <1>9, <3>4, <3>5
  <2> QED
    BY <1>5, <2>1, <2>2
<1>11. \A i \in kept : line[i] = "del"
  <2> HIDE DEF kept
  <2>1. 1 \in 1..Cardinality(kept)
    BY <1>10
  <2>2. nth(1) \in kept
    BY <1>7, <2>1
  <2> HIDE DEF nth
  <2>3. line[nth(1)] = "del"
    BY <1>3, <1>9, <2>1
  <2>4. \E x : kept = {x}
    BY <1>5, <1>10, FS_Singleton
  <2> QED
    BY <2>2, <2>3, <2>4
<1>12. at = {}
  <2> SUFFICES ASSUME at # {}
               PROVE  FALSE
    OBVIOUS
  <2>1. \E last \in at : \A j \in at : j <= last
    <3>1. Cardinality(at) \in 1..Cardinality(at)
      <4> HIDE DEF at
      <4> QED
        BY <1>5, FS_EmptySet
    <3>2. PICK last \in at : Cardinality({j \in at : j <= last}) = Cardinality(at)
      <4> HIDE DEF at
      <4> QED
        BY <1>1, <1>6, <3>1, Nth
    <3>3. {j \in at : j <= last} = at
      <4> DEFINE upto == {j \in at : j <= last}
      <4>1. upto \in SUBSET at
        OBVIOUS
      <4> HIDE DEF upto, at
      <4>2. upto = at
        BY <1>5, <3>2, <4>1, FS_Subset DEF upto
      <4> QED
        BY <4>2 DEF upto
    <3> QED
      BY <3>3
  <2> DEFINE last == CHOOSE i \in at : \A j \in at : j <= i
  <2>2. last \in at
    <3> HIDE DEF at
    <3> QED
      BY <2>1
  <2> HIDE DEF last
  <2>3. 1 + last \in 1..Len(line)
    BY <1>1, <1>2, <2>2
  <2>4. line[1 + last] \in STRING
    BY <1>1, <2>3
  <2>5. id = line[1 + last]
    BY <1>4 DEF last
  <2> QED
    BY <1>9, <2>4, <2>5, LinesAssumption
<1> SUFFICES ASSUME NEW i \in 1..Len(line), line[i] \in Ids,
                    i > 1 /\ takes[i - 1] => line[i - 1] = "--id"
             PROVE  FALSE
  BY <1>1 DEF Names, takes
<1>13. ~takes[i] /\ line[i] # "--json" /\ line[i] # "del"
  BY <1>2, LinesAssumption DEF GlobalOptions
<1>14. ~(i > 1 /\ takes[i - 1])
  BY <1>1, <1>12
<1>15. i \in kept
  BY <1>1, <1>13, <1>14
<1> QED
  BY <1>11, <1>13, <1>15

\* No line that names a record, with --id or by a word of its own, deletes
\* another, the latest (app.cpp, delete_command.cpp).
THEOREM LatestNeedsNoName == CSpec => []LatestOnlyUnnamed
<1>1. CInit => LatestOnlyUnnamed
  BY DEF CInit, LatestOnlyUnnamed, Idle, Refuse, Ask
<1>2. ASSUME ClientInv, ClientInv', LatestOnlyUnnamed, [CNext]_cvars
      PROVE  LatestOnlyUnnamed'
  <2> SUFFICES ASSUME NEW d \in Clients, client'[d].req = Ask("delete", Nothing)
               PROVE  ~client'[d].names
    BY DEF LatestOnlyUnnamed
  <2>0. /\ client[d] \in Invocation
        /\ client[d].req = Ask("delete", Nothing) => ~client[d].names
        /\ Idle.req # Ask("delete", Nothing) /\ client \in [Clients -> Invocation]
        /\ ~Idle.names
    BY <1>2 DEF ClientInv, LatestOnlyUnnamed, Idle, Refuse, Ask
  <2> DEFINE kept == client'[d].req = client[d].req /\ client'[d].names = client[d].names
  <2>1. SUFFICES kept \/ ~client'[d].names
    BY <2>0
  <2>2. ASSUME NEW c \in Clients, NEW line \in Lines[c], NEW url \in BOOLEAN,
               NEW key \in BOOLEAN, NEW stdin \in BOOLEAN, Invoke(c, line, url, key, stdin)
        PROVE  kept \/ ~client'[d].names
    <3>1. CASE c # d
      BY <2>0, <2>2, <3>1 DEF Invoke
    <3>2. CASE c = d
      <4>1. client'[d].req = Dispatch(line, url, stdin) /\ client'[d].names = Names(line)
        BY <2>0, <2>2, <3>2 DEF Invoke, Idle
      <4> QED
        BY <4>1, UnnamedDeletion, LinesAssumption
    <3> QED
      BY <3>1, <3>2
  <2>3. ASSUME NEW c \in Clients, NEW r, client' = [client EXCEPT ![c] = r],
               r.req = client[c].req, r.names = client[c].names
        PROVE  kept
    BY <2>0, <2>3
  <2>4. ASSUME NEW c \in Clients,
               Load(c) \/ Retry(c) \/ Send(c) \/ Truncate(c) \/ Write(c) \/ Settle(c)
        PROVE  kept
    <3>0. client[c] \in Invocation
      BY <2>0
    <3> HIDE DEF kept
    <3>1. CASE Load(c)
      <4> DEFINE scheme == IF ~client[c].key THEN Nothing
                           ELSE IF Cached = Nothing THEN "bearer" ELSE Cached
                 cached == client[c].key /\ Cached # Nothing
                 r == [client[c] EXCEPT !.pc = "send", !.scheme = scheme, !.steady = TRUE,
                                        !.cached = cached]
      <4>1. client' = [client EXCEPT ![c] = r]
        BY <3>1 DEF Load
      <4> HIDE DEF scheme, cached
      <4>2. r.req = client[c].req /\ r.names = client[c].names
        BY <3>0 DEF Invocation
      <4> HIDE DEF r
      <4> QED
        BY <4>1, <4>2, <2>3
    <3>2. CASE Retry(c)
      <4> DEFINE scheme == NextScheme(c)
                 r == [client[c] EXCEPT !.pc = "send", !.cached = FALSE, !.scheme = scheme]
      <4>1. client' = [client EXCEPT ![c] = r]
        BY <3>2 DEF Retry
      <4> HIDE DEF scheme
      <4>2. r.req = client[c].req /\ r.names = client[c].names
        BY <3>0 DEF Invocation
      <4> HIDE DEF r
      <4> QED
        BY <4>1, <4>2, <2>3
    <3>3. CASE Send(c)
      <4>1. PICK answer, n :
              \/ client' = [client EXCEPT ![c] =
                   [client[c] EXCEPT !.pc = "answer", !.answer = answer, !.applied = n]]
              \/ client' = [client EXCEPT ![c] =
                   [client[c] EXCEPT !.pc = "answer", !.answer = answer]]
        BY <3>3 DEF Send
      <4> DEFINE r == [client[c] EXCEPT !.pc = "answer", !.answer = answer, !.applied = n]
                 s == [client[c] EXCEPT !.pc = "answer", !.answer = answer]
      <4>2. client' = [client EXCEPT ![c] = r] \/ client' = [client EXCEPT ![c] = s]
        BY <4>1
      <4>3. /\ r.req = client[c].req /\ r.names = client[c].names
            /\ s.req = client[c].req /\ s.names = client[c].names
        BY <3>0 DEF Invocation
      <4> HIDE DEF r, s
      <4> QED
        BY <4>2, <4>3, <2>3, SMTT(30)
    <3>4. CASE Truncate(c) \/ Write(c) \/ Settle(c)
      <4>1. PICK pc : client' = [client EXCEPT ![c] = [client[c] EXCEPT !.pc = pc]]
        BY <3>4 DEF Truncate, Write, Settle
      <4> DEFINE r == [client[c] EXCEPT !.pc = pc]
      <4>2. client' = [client EXCEPT ![c] = r]
        BY <4>1
      <4>3. r.req = client[c].req /\ r.names = client[c].names
        BY <3>0 DEF Invocation
      <4> HIDE DEF r
      <4> QED
        BY <4>2, <4>3, <2>3
    <3> QED
      BY <2>4, <3>1, <3>2, <3>3, <3>4
  <2>5. ASSUME NEW c \in Clients, Fetch(c)
        PROVE  kept \/ ~client'[d].names
    BY <2>0, <2>5 DEF Fetch, Idle
  <2>6. ASSUME NEW c \in Clients, Lose(c) \/ Quit(c)
        PROVE  kept \/ ~client'[d].names
    BY <2>0, <2>6 DEF Lose, Quit
  <2>7. Reconfigure => kept \/ ~client'[d].names
    BY <2>0 DEF Reconfigure, Invocation
  <2>8. Overwrite => kept
    BY <2>0 DEF Overwrite, Invocation
  <2>9. UNCHANGED cvars => kept
    BY DEF cvars
  <2> HIDE DEF kept
  <2> QED
    BY <1>2, <2>2, <2>3, <2>4, <2>5, <2>6, <2>7, <2>8, <2>9 DEF CNext, Step, Transfer
<1> QED
  BY <1>1, <1>2, InvariantHolds, PTL DEF CSpec
=============================================================================
